---- MODULE Spec2Model ----
(***************************************************************************)
(* A model of transports/quic/src/endpoint.rs: the QUIC endpoint, its      *)
(* background driver task, the Listener and the dial / listen_on entry     *)
(* points.                                                                 *)
(*                                                                         *)
(* The protocol engine (quinn_proto::Endpoint), the connection module      *)
(* (Muxer, ConnectionDriver) and the socket module (Socket, Pending) are   *)
(* not part of endpoint.rs.  They are modelled by their interface: what    *)
(* they return is a nondeterministic choice, and the little state they     *)
(* keep (which connections the engine knows, which Muxers are alive,       *)
(* whether a packet is parked in socket::Pending) is kept explicitly.      *)
(***************************************************************************)
EXTENDS Integers, Sequences, FiniteSets

\* ------------------------------------------------------------ bounds
\* Connection handles the engine can hand out over the endpoint's life.
MaxHandles == 1
\* Endpoint clones that can exist at the same time.
MaxClones == 2

Handles == 1..MaxHandles

\* ------------------------------------------------------------ addresses
\* A Multiaddr is a sequence of protocol segments.  An IP is a number, 0 being
\* the unspecified address (0.0.0.0 or ::).
Seg(p, v) == [p |-> p, v |-> v]
Quic == Seg("quic", 0)

\* The address the endpoint is constructed with.
Address == <<Seg("ip4", 1), Seg("udp", 1234), Quic>>

\* The addresses handed to dial and listen_on: the endpoint's own, one with
\* port 0, one with the unspecified host, and one that is no QUIC address.
Addrs ==
    { Address,
      <<Seg("ip6", 2), Seg("udp", 0), Quic>>,
      <<Seg("ip4", 0), Seg("udp", 1234), Quic>>,
      <<Seg("ip4", 1), Seg("udp", 1234)>> }

ErrAddr == [ok |-> FALSE, ip |-> <<"none", 0>>, port |-> 0]
SocketAddr(fam, ip, port) == [ok |-> TRUE, ip |-> <<fam, ip>>, port |-> port]

\* The conversion reading three segments and not looking for a fourth.
multiaddr_to_socketaddr_prefix(addr) ==
    IF Len(addr) < 3 THEN ErrAddr
    ELSE IF addr[1].p = "ip4" /\ addr[2].p = "udp" /\ addr[3].p = "quic"
         THEN SocketAddr("v4", addr[1].v, addr[2].v)
    ELSE IF addr[1].p = "ip6" /\ addr[2].p = "udp" /\ addr[3].p = "quic"
         THEN SocketAddr("v6", addr[1].v, addr[2].v)
    ELSE ErrAddr

\* multiaddr_to_socketaddr: exactly three segments, ip4|ip6 / udp / quic.
multiaddr_to_socketaddr(addr) ==
    IF Len(addr) # 3 THEN ErrAddr
    ELSE IF addr[1].p = "ip4" /\ addr[2].p = "udp" /\ addr[3].p = "quic"
         THEN SocketAddr("v4", addr[1].v, addr[2].v)
    ELSE IF addr[1].p = "ip6" /\ addr[2].p = "udp" /\ addr[3].p = "quic"
         THEN SocketAddr("v6", addr[1].v, addr[2].v)
    ELSE ErrAddr

is_unspecified(sa) == sa.ip[2] = 0

\* dial without the test of the port.
DialAddrOkAnyPort(addr) ==
    LET sa == multiaddr_to_socketaddr(addr)
    IN  sa.ok /\ ~is_unspecified(sa)

\* The check at the head of dial: the address parses, its port is not 0 and
\* its host is not the unspecified address.
DialAddrOk(addr) ==
    LET sa == multiaddr_to_socketaddr(addr)
    IN  sa.ok /\ ~(sa.port = 0 \/ is_unspecified(sa))

\* ------------------------------------------------------------ state
VARIABLES
    constructed,      \* Endpoint::new has sent NewAddress and returned
    clones,           \* number of live Endpoint values (Arc clones held by users)
    receiver,         \* where the UnboundedReceiver of new connections is
    new_connections,  \* the items queued in the new-connection channel
    yielded,          \* number of items the Listener has yielded, capped at 2
    muxers,           \* EndpointInner.muxers: the handles with a Registry entry
    alive,            \* the handles whose Muxer still exists (its Weak resolves)
    next_handle,      \* engine: the next handle it will hand out
    conns,            \* engine: the connections it has not been told are drained
    rejecting,        \* engine: reject_new_connections has been called
    outgoing,         \* engine: poll_transmit has a packet to return
    pending,          \* socket::Pending holds a packet the socket did not take
    driver,           \* EndpointInner.driver: "Some" once a JoinHandle is stored
    spawned,          \* number of driver tasks ever spawned
    quiet,            \* at the start of the driver's poll: only the driver held
                      \* the endpoint and nothing was waiting to be transmitted
    lock,             \* holder of the EndpointInner mutex
    pc,               \* where the driver task is
    incoming,         \* the handle drive_receive returned to poll, or 0
    synth,            \* per handle: drained events made up by drive_receive,
                      \* capped at 2
    lastOp,           \* the last call into the endpoint: its result and its calls
    addr_in,          \* the Multiaddr last handed to multiaddr_to_socketaddr
    sock_out          \* what multiaddr_to_socketaddr returned for it

vars == <<constructed, clones, receiver, new_connections, yielded, muxers, alive,
          next_handle, conns, rejecting, outgoing, pending, driver, spawned,
          quiet, lock, pc, incoming, synth, lastOp, addr_in, sock_out>>

\* The Endpoint Shared State behind the mutex, and the engine inside it.
engine == <<next_handle, conns, rejecting, outgoing>>
inner == <<engine, muxers, pending, driver, spawned>>
channel == <<receiver, new_connections>>
hist == <<synth, quiet>>
\* The conversion under test; the calls into the endpoint leave it alone.
conv == <<addr_in, sock_out>>

NewAddress == [kind |-> "NewAddress", h |-> 0]
Upgrade(h) == [kind |-> "Upgrade", h |-> h]

\* A call made on the engine or on a Muxer.
Call(f, h, d) == [f |-> f, h |-> h, drained |-> d]

\* What a call into the endpoint did (new, dial, listen_on, poll_next, or a
\* step of the driver's poll): its name, the handle it was about, its result,
\* and the calls it made on the engine and the Muxers, in order.
Op(name, h, res, calls) ==
    [op |-> name, h |-> h, result |-> res, calls |-> calls]

Min(a, b) == IF a < b THEN a ELSE b

\* The driver task holds one Arc<EndpointData> until it completes.
DriverRunning == pc \notin {"done", "failed"}

\* Every Muxer is created with a clone of the Arc<EndpointData>.
MuxerRefs == Cardinality(alive)

\* Arc::strong_count(&this.0): the driver, the user's clones, the Listener's
\* reference, and the references the Muxers hold.
StrongCount ==
    (IF DriverRunning THEN 1 ELSE 0) + clones
        + (IF receiver = "listener" THEN 1 ELSE 0) + MuxerRefs

\* ------------------------------------------------------------ construction
\* Endpoint::new up to the spawn of the driver (line 233): the socket is bound,
\* the channel is empty and its receiver sits in receive_connections, the
\* driver is spawned and has not been polled, and the constructor still holds
\* the only Endpoint.  The construction address has been converted (line 202).
Init ==
    /\ constructed = FALSE
    /\ clones = 1
    /\ receiver = "endpoint"
    /\ new_connections = <<>>
    /\ yielded = 0
    /\ muxers = {}
    /\ alive = {}
    /\ next_handle = 1
    /\ conns = {}
    /\ rejecting = FALSE
    /\ outgoing = FALSE
    /\ pending = FALSE
    /\ driver = "Some"
    /\ spawned = 1
    /\ quiet = FALSE
    /\ lock = "free"
    /\ pc = "idle"
    /\ incoming = 0
    /\ synth = [h \in Handles |-> 0]
    /\ lastOp = Op("spawn", 0, "Ok", <<>>)
    /\ addr_in = Address
    /\ sock_out = multiaddr_to_socketaddr(Address)

\* unbounded_send: the item is queued unless the receiver has been dropped.
SendFails == receiver = "dropped"

\* The rest of Endpoint::new (lines 234-239): NewAddress is sent after the
\* driver has been spawned and the lock released.
NewSendAddress ==
    /\ ~constructed
    /\ constructed' = TRUE
    /\ new_connections' = Append(new_connections, NewAddress)
    /\ lastOp' = Op("new", 0, "Ok", <<>>)
    /\ UNCHANGED <<conv, clones, receiver, yielded, alive, inner, lock, pc, incoming,
                   hist>>

\* ------------------------------------------------------------ engine
\* quinn_proto::Endpoint::handle_event: a drained event makes the engine forget
\* the connection; any other event leaves the set of connections as it is.
EngineHandleEvent(c, h, d) == IF d THEN c \ {h} ELSE c

\* The engine hands out handles in order and never reuses one.
CanAllocate == next_handle <= MaxHandles

\* A new connection in the engine (connect, or an initial datagram): the
\* handle is taken, the connection is live, and a packet is queued for it.
Allocate ==
    /\ next_handle' = next_handle + 1
    /\ conns' = conns \cup {next_handle}
    /\ outgoing' = TRUE

\* ------------------------------------------------------------ registry
\* handle_event removing the entry whatever the event is.
handle_event_muxers_any(m, h, d) == m \ {h}

\* EndpointInner::handle_event, on the Registry: a drained event removes the
\* handle's entry, any other event leaves the Registry alone.
handle_event_muxers(m, h, d) == IF d THEN m \ {h} ELSE m

\* muxers.get(&handle).and_then(|e| e.upgrade()): there is an entry and its
\* Weak still resolves.
Resolves(h) == h \in muxers /\ h \in alive

\* create_muxer with a callback that does not insert.
create_muxer_unregistered(h) == muxers' = muxers

\* create_muxer: ConnectionDriver::spawn builds the Muxer and hands its Weak to
\* the callback, which inserts it into the Registry.
create_muxer(h) == muxers' = muxers \cup {h}

\* dial and listen_on spawning a driver whenever none is running.
EnsureDriverRespawn ==
    /\ driver' = "Some"
    /\ spawned' = IF driver = "None" \/ ~DriverRunning THEN spawned + 1 ELSE spawned

\* if inner.driver.is_none() { inner.driver = Some(spawn(EndpointDriver)) }
EnsureDriver ==
    /\ driver' = "Some"
    /\ spawned' = IF driver = "None" THEN spawned + 1 ELSE spawned

\* ------------------------------------------------------------ users
\* Endpoint::clone and the drop of an Endpoint.  A listen_on call that has
\* taken the receiver and waits for the lock borrows an Endpoint.
CloneEndpoint ==
    /\ constructed
    /\ clones >= 1
    /\ clones < MaxClones
    /\ clones' = clones + 1
    /\ UNCHANGED <<conv, lastOp, constructed, channel, yielded, alive, inner, lock, pc,
                   incoming, hist>>

DropEndpoint ==
    /\ constructed
    /\ clones >= (IF receiver = "taken" THEN 2 ELSE 1)
    /\ clones' = clones - 1
    /\ UNCHANGED <<conv, lastOp, constructed, channel, yielded, alive, inner, lock, pc,
                   incoming, hist>>

\* The owner of a Muxer drops it: the Weak in the Registry stops resolving and
\* the Muxer's reference to the endpoint is released.  The Registry is not told.
DropMuxer(h) ==
    /\ h \in alive
    /\ alive' = alive \ {h}
    /\ UNCHANGED <<conv, lastOp, constructed, clones, channel, yielded, inner, lock, pc,
                   incoming, hist>>

\* ------------------------------------------------------------ dial
\* dial, lines 351-359: the address is refused before the lock is taken.
DialRefused(addr) ==
    /\ constructed
    /\ clones >= 1
    /\ ~DialAddrOk(addr)
    /\ lastOp' = Op("dial", 0, "MultiaddrNotSupported", <<>>)
    /\ UNCHANGED <<conv, constructed, clones, channel, yielded, alive, inner, lock,
                   pc, incoming, hist>>

\* dial connecting without waiting for the lock.
DialConnectedUnlocked(addr) ==
    /\ constructed
    /\ clones >= 1
    /\ DialAddrOk(addr)
    /\ EnsureDriver
    /\ CanAllocate
    /\ Allocate
    /\ create_muxer(next_handle)
    /\ alive' = alive \cup {next_handle}
    /\ lastOp' = Op("dial", next_handle, "Ok",
                    <<Call("connect", next_handle, FALSE)>>)
    /\ UNCHANGED <<conv, constructed, clones, channel, yielded, rejecting, pending,
                   lock, pc, incoming, hist>>

\* dial, lines 360-377, with connect succeeding: under the lock, the engine
\* hands out a handle and create_muxer registers the new Muxer.
DialConnected(addr) ==
    /\ constructed
    /\ clones >= 1
    /\ DialAddrOk(addr)
    /\ lock = "free"
    /\ EnsureDriver
    /\ CanAllocate
    /\ Allocate
    /\ create_muxer(next_handle)
    /\ alive' = alive \cup {next_handle}
    /\ lastOp' = Op("dial", next_handle, "Ok",
                    <<Call("connect", next_handle, FALSE)>>)
    /\ UNCHANGED <<conv, constructed, clones, channel, yielded, rejecting, pending,
                   lock, pc, incoming, hist>>

\* dial, lines 360-376, with connect failing: the error goes to the caller.
DialConnectFailed(addr) ==
    /\ constructed
    /\ clones >= 1
    /\ DialAddrOk(addr)
    /\ lock = "free"
    /\ EnsureDriver
    /\ lastOp' = Op("dial", 0, "CannotConnect",
                    <<Call("connect", 0, FALSE)>>)
    /\ UNCHANGED <<conv, constructed, clones, channel, yielded, alive, engine, muxers,
                   pending, lock, pc, incoming, hist>>

dial(addr) == DialRefused(addr) \/ DialConnected(addr) \/ DialConnectFailed(addr)

\* ------------------------------------------------------------ listen_on
\* listen_on taking any address that parses.
ListenAddrParses(addr) == multiaddr_to_socketaddr(addr).ok

\* if addr != self.0.address
ListenAddrOk(addr) == addr = Address

\* listen_on reading the receiver without taking it out of the Option.
ReceiverNotTaken == receiver \in {"endpoint", "listener"}

\* receive_connections.lock().take() returns the receiver: the Option is Some.
ReceiverAvailable == receiver = "endpoint"

\* listen_on, lines 334-336: an address other than the endpoint's own.
ListenRefused(addr) ==
    /\ constructed
    /\ clones >= 1
    /\ ~ListenAddrOk(addr)
    /\ lastOp' = Op("listen_on", 0, "MultiaddrNotSupported", <<>>)
    /\ UNCHANGED <<conv, constructed, clones, channel, yielded, alive, inner, lock,
                   pc, incoming, hist>>

\* listen_on, lines 337-341, the Option being None.
ListenAlready(addr) ==
    /\ constructed
    /\ clones >= 1
    /\ ListenAddrOk(addr)
    /\ ~ReceiverAvailable
    /\ lastOp' = Op("listen_on", 0, "AlreadyListening", <<>>)
    /\ UNCHANGED <<conv, constructed, clones, channel, yielded, alive, inner, lock,
                   pc, incoming, hist>>

\* listen_on, lines 337-341, the Option being Some: the receiver is taken out
\* of receive_connections; the caller goes on to the EndpointInner lock.
ListenTake(addr) ==
    /\ constructed
    /\ clones >= 1
    /\ ListenAddrOk(addr)
    /\ ReceiverAvailable
    /\ receiver' = "taken"
    /\ lastOp' = Op("listen_on_take", 0, "Taken", <<>>)
    /\ UNCHANGED <<conv, constructed, clones, new_connections, yielded, alive, inner,
                   lock, pc, incoming, hist>>

\* listen_on, lines 342-347: under the lock, the driver is spawned if there is
\* none, and the Listener is built from the receiver and a clone of the Arc.
ListenFinish ==
    /\ receiver = "taken"
    /\ lock = "free"
    /\ EnsureDriver
    /\ receiver' = "listener"
    /\ lastOp' = Op("listen_on", 0, "Ok", <<>>)
    /\ UNCHANGED <<conv, constructed, clones, new_connections, yielded, alive, engine,
                   muxers, pending, lock, pc, incoming, hist>>

listen_on(addr) == ListenRefused(addr) \/ ListenAlready(addr) \/ ListenTake(addr)

\* ------------------------------------------------------------ Listener
\* The channel is closed once every sender is gone.  The only sender is the
\* new_connections field of EndpointData, which lives as long as any Arc to it.
ChannelClosed == StrongCount = 0

\* Listener::poll_next: the receiver's poll_next.
ListenerPollNext ==
    /\ receiver = "listener"
    /\ IF new_connections # <<>>
       THEN /\ new_connections' = Tail(new_connections)
            /\ yielded' = Min(yielded + 1, 2)
            /\ lastOp' = Op("poll_next", Head(new_connections).h,
                            Head(new_connections).kind, <<>>)
       ELSE /\ lastOp' = Op("poll_next", 0,
                            IF ChannelClosed THEN "None" ELSE "Pending", <<>>)
            /\ UNCHANGED <<conv, new_connections, yielded>>
    /\ UNCHANGED <<conv, constructed, clones, receiver, alive, inner, lock, pc,
                   incoming, hist>>

\* The Listener is dropped: its receiver goes, with the items still queued, and
\* so does its reference to the endpoint.
DropListener ==
    /\ receiver = "listener"
    /\ receiver' = "dropped"
    /\ new_connections' = <<>>
    /\ UNCHANGED <<conv, lastOp, constructed, clones, yielded, alive, inner, lock, pc,
                   incoming, hist>>

\* ------------------------------------------------------------ Muxer
\* Muxer::process_connection_events(endpoint, event) is given the EndpointInner
\* and can hand one of its connection's endpoint events to
\* EndpointInner::handle_event: none, an ordinary one, or the drained one.
Callbacks == {"none", "event", "drained"}

CallbackCalls(h, cb) ==
    IF cb = "none" THEN <<>> ELSE <<Call("handle_event", h, cb = "drained")>>

ProcessConns(c, h, cb) ==
    IF cb = "none" THEN c ELSE EngineHandleEvent(c, h, cb = "drained")

ProcessMuxers(m, h, cb) ==
    IF cb = "none" THEN m ELSE handle_event_muxers(m, h, cb = "drained")

\* ------------------------------------------------------------ driver
\* EndpointDriver::poll, line 283: the poll starts by taking the lock.
DriverPoll ==
    /\ pc = "idle"
    /\ lock = "free"
    /\ lock' = "driver"
    /\ pc' = "events"
    /\ quiet' = (StrongCount = 1 /\ ~pending /\ ~outgoing)
    /\ lastOp' = Op("poll", 0, "Locked", <<>>)
    /\ UNCHANGED <<conv, constructed, clones, channel, yielded, alive, inner, incoming,
                   synth>>

\* drive_events, lines 69-72: a ConnectionAccepted message.  Only a connection
\* sends one.
DriveEventsAccepted ==
    /\ pc = "events"
    /\ next_handle > 1
    /\ lastOp' = Op("drive_events", 0, "ConnectionAccepted",
                    <<Call("accept", 0, FALSE)>>)
    /\ UNCHANGED <<conv, constructed, clones, channel, yielded, alive, inner, lock, pc,
                   incoming, hist>>

\* drive_events taking one message and going on to the socket (if let in the
\* place of while let).
DriveEventsRoutedOnce(h, d, cb) ==
    /\ pc = "events"
    /\ h < next_handle
    /\ Resolves(h)
    /\ conns' = ProcessConns(EngineHandleEvent(conns, h, d), h, cb)
    /\ muxers' = ProcessMuxers(muxers, h, cb)
    /\ pc' = "receive"
    /\ lastOp' = Op("drive_events", h, "Routed",
                    <<Call("handle_event", h, d),
                      Call("process_connection_events", h, FALSE)>>
                        \o CallbackCalls(h, cb))
    /\ UNCHANGED <<conv, constructed, clones, channel, yielded, alive, next_handle,
                   rejecting, outgoing, pending, driver, spawned, lock,
                   incoming, hist>>

\* drive_events, lines 73-80: an EndpointEvent message for a handle whose Muxer
\* resolves.  The event goes to the engine's own handle_event, then the
\* engine's answer goes to the Muxer.
DriveEventsRouted(h, d, cb) ==
    /\ pc = "events"
    /\ h < next_handle
    /\ Resolves(h)
    /\ conns' = ProcessConns(EngineHandleEvent(conns, h, d), h, cb)
    /\ muxers' = ProcessMuxers(muxers, h, cb)
    /\ lastOp' = Op("drive_events", h, "Routed",
                    <<Call("handle_event", h, d),
                      Call("process_connection_events", h, FALSE)>>
                        \o CallbackCalls(h, cb))
    /\ UNCHANGED <<conv, constructed, clones, channel, yielded, alive, next_handle,
                   rejecting, outgoing, pending, driver, spawned, lock, pc,
                   incoming, hist>>

\* drive_events, line 76: an EndpointEvent message for a handle with no entry
\* or with a Weak that does not resolve.  The entry is removed.
DriveEventsLost(h, d) ==
    /\ pc = "events"
    /\ h < next_handle
    /\ ~Resolves(h)
    /\ muxers' = muxers \ {h}
    /\ lastOp' = Op("drive_events", h, "Lost", <<>>)
    /\ UNCHANGED <<conv, constructed, clones, channel, yielded, alive, engine, pending,
                   driver, spawned, lock, pc, incoming, hist>>

\* drive_events, line 67: the event channel has no message ready.
DriveEventsDone ==
    /\ pc = "events"
    /\ pc' = "receive"
    /\ lastOp' = Op("drive_events", 0, "Pending", <<>>)
    /\ UNCHANGED <<conv, constructed, clones, channel, yielded, alive, inner, lock,
                   incoming, hist>>

drive_events ==
    \/ DriveEventsAccepted
    \/ \E h \in Handles, d \in BOOLEAN :
          \/ \E cb \in Callbacks : DriveEventsRouted(h, d, cb)
          \/ DriveEventsLost(h, d)
    \/ DriveEventsDone

\* drive_receive, line 95: recv_from has no datagram ready.  poll goes on to
\* poll_transmit_pending on its Pending branch.
ReceivePending ==
    /\ pc = "receive"
    /\ pc' = "transmit"
    /\ incoming' = 0
    /\ lastOp' = Op("drive_receive", 0, "Pending", <<>>)
    /\ UNCHANGED <<conv, constructed, clones, channel, yielded, alive, inner, lock,
                   hist>>

\* poll swallowing the read error and returning Pending.
ReceiveErrorRetried ==
    /\ pc = "receive"
    /\ pc' = "idle"
    /\ lock' = "free"
    /\ incoming' = 0
    /\ lastOp' = Op("poll_return", 0, "Pending", <<>>)
    /\ UNCHANGED <<conv, constructed, clones, channel, yielded, alive, inner, hist>>

\* drive_receive, line 95, and poll, line 287: recv_from fails, the error leaves
\* poll through the two ?s, and the lock guard is dropped on the way out.
ReceiveError ==
    /\ pc = "receive"
    /\ pc' = "failed"
    /\ lock' = "free"
    /\ incoming' = 0
    /\ lastOp' = Op("poll_return", 0, "Err", <<>>)
    /\ UNCHANGED <<conv, constructed, clones, channel, yielded, alive, inner, hist>>

\* drive_receive, lines 96-103: the engine has nothing to say about the
\* datagram (it belongs to no connection the engine knows).
ReceiveIgnored ==
    /\ pc = "receive"
    /\ lastOp' = Op("drive_receive", 0, "None", <<Call("handle", 0, FALSE)>>)
    /\ UNCHANGED <<conv, constructed, clones, channel, yielded, alive, inner, lock, pc,
                   incoming, hist>>

\* drive_receive, lines 106-110: a connection event for a handle whose Muxer
\* resolves goes to the Muxer.
ReceiveRouted(h, cb) ==
    /\ pc = "receive"
    /\ h \in conns
    /\ Resolves(h)
    /\ conns' = ProcessConns(conns, h, cb)
    /\ muxers' = ProcessMuxers(muxers, h, cb)
    /\ lastOp' = Op("drive_receive", h, "Routed",
                    <<Call("handle", h, FALSE),
                      Call("process_connection_events", h, FALSE)>>
                        \o CallbackCalls(h, cb))
    /\ UNCHANGED <<conv, constructed, clones, channel, yielded, alive, next_handle,
                   rejecting, outgoing, pending, driver, spawned, lock, pc,
                   incoming, hist>>

\* drive_receive treating the lost connection as drive_events does: the entry
\* is removed and the engine is told nothing.
ReceiveOrphanForgotten(h) ==
    /\ pc = "receive"
    /\ h \in conns
    /\ ~Resolves(h)
    /\ muxers' = muxers \ {h}
    /\ lastOp' = Op("drive_receive", h, "Orphan", <<Call("handle", h, FALSE)>>)
    /\ UNCHANGED <<conv, constructed, clones, channel, yielded, alive, engine, pending,
                   driver, spawned, lock, pc, incoming, hist>>

\* drive_receive, lines 111-116: a connection event for a handle with no entry
\* or with a Weak that does not resolve.  A drained event is made up and given
\* to EndpointInner::handle_event, which tells the engine and removes the entry.
ReceiveOrphan(h) ==
    /\ pc = "receive"
    /\ h \in conns
    /\ ~Resolves(h)
    /\ conns' = EngineHandleEvent(conns, h, TRUE)
    /\ muxers' = handle_event_muxers(muxers, h, TRUE)
    /\ synth' = [synth EXCEPT ![h] = Min(@ + 1, 2)]
    /\ lastOp' = Op("drive_receive", h, "Orphan",
                    <<Call("handle", h, FALSE), Call("handle_event", h, TRUE)>>)
    /\ UNCHANGED <<conv, constructed, clones, channel, yielded, alive, next_handle,
                   rejecting, outgoing, pending, driver, spawned, quiet, lock,
                   pc, incoming>>

\* drive_receive, lines 119-122: the engine reports a new connection, which
\* ends the receive loop.  An engine that rejects new connections reports none.
ReceiveNewConnection ==
    /\ pc = "receive"
    /\ ~rejecting
    /\ CanAllocate
    /\ Allocate
    /\ incoming' = next_handle
    /\ pc' = "accept"
    /\ lastOp' = Op("drive_receive", next_handle, "NewConnection",
                    <<Call("handle", next_handle, FALSE)>>)
    /\ UNCHANGED <<conv, constructed, clones, channel, yielded, alive, muxers,
                   rejecting, pending, driver, spawned, lock, hist>>

drive_receive ==
    \/ ReceivePending
    \/ ReceiveError
    \/ ReceiveIgnored
    \/ \E h \in Handles :
          \/ \E cb \in Callbacks : ReceiveRouted(h, cb)
          \/ ReceiveOrphan(h)
    \/ ReceiveNewConnection

\* accept_muxer, lines 261-270, the send succeeding: the Muxer is registered
\* and the Upgrade is queued for the Listener.
AcceptMuxerSent ==
    /\ pc = "accept"
    /\ ~SendFails
    /\ create_muxer(incoming)
    /\ alive' = alive \cup {incoming}
    /\ new_connections' = Append(new_connections, Upgrade(incoming))
    /\ pc' = "transmit"
    /\ lastOp' = Op("accept_muxer", incoming, "Sent", <<>>)
    /\ UNCHANGED <<conv, constructed, clones, receiver, yielded, engine, pending,
                   driver, spawned, lock, incoming, hist>>

\* accept_muxer telling the engine accept and no more.
AcceptMuxerRefusedAcceptOnly(keep) ==
    /\ pc = "accept"
    /\ SendFails
    /\ create_muxer(incoming)
    /\ alive' = IF keep THEN alive \cup {incoming} ELSE alive
    /\ pc' = "transmit"
    /\ lastOp' = Op("accept_muxer", incoming, "SendFailed",
                    <<Call("accept", 0, FALSE)>>)
    /\ UNCHANGED <<conv, constructed, clones, channel, yielded, engine, pending,
                   driver, spawned, lock, incoming, hist>>

\* accept_muxer, lines 261-274, the send failing because the receiver is gone:
\* the Muxer is registered, the Upgrade comes back in the error and is dropped
\* (the Muxer may go with it), and the engine is told accept and then
\* reject_new_connections.
AcceptMuxerRefused(keep) ==
    /\ pc = "accept"
    /\ SendFails
    /\ create_muxer(incoming)
    /\ alive' = IF keep THEN alive \cup {incoming} ELSE alive
    /\ rejecting' = TRUE
    /\ pc' = "transmit"
    /\ lastOp' = Op("accept_muxer", incoming, "SendFailed",
                    <<Call("accept", 0, FALSE),
                      Call("reject_new_connections", 0, FALSE)>>)
    /\ UNCHANGED <<conv, constructed, clones, channel, yielded, next_handle, conns,
                   outgoing, pending, driver, spawned, lock, incoming, hist>>

accept_muxer == AcceptMuxerSent \/ \E keep \in BOOLEAN : AcceptMuxerRefused(keep)

\* ------------------------------------------------------------ transmit
\* poll_transmit_pending has something to send: the packet parked in
\* socket::Pending, or one the engine returns from poll_transmit.
ToSend == pending \/ outgoing

\* poll, lines 289 and 297: the socket write fails; the error leaves poll.
TransmitError ==
    /\ pc = "transmit"
    /\ ToSend
    /\ pc' = "failed"
    /\ lock' = "free"
    /\ incoming' = 0
    /\ lastOp' = Op("poll_return", incoming, "Err", <<>>)
    /\ UNCHANGED <<conv, constructed, clones, channel, yielded, alive, inner, hist>>

\* poll, lines 289-291 and 298: the socket stops taking packets; the packet it
\* did not take stays in socket::Pending, and the engine may have more.  poll
\* returns Pending.
TransmitBlocked(more) ==
    /\ pc = "transmit"
    /\ ToSend
    /\ more => outgoing
    /\ pending' = TRUE
    /\ outgoing' = more
    /\ pc' = "idle"
    /\ lock' = "free"
    /\ incoming' = 0
    /\ lastOp' = Op("poll_return", incoming, "Pending", <<>>)
    /\ UNCHANGED <<conv, constructed, clones, channel, yielded, alive, next_handle,
                   conns, rejecting, muxers, driver, spawned, hist>>

\* poll, lines 289-291 and 302: every packet is sent.  poll returns Pending:
\* on the branch where no datagram was ready, and on the branch of a new
\* connection when someone else still holds the endpoint.
TransmitReady ==
    /\ pc = "transmit"
    /\ ~(incoming # 0 /\ StrongCount = 1)
    /\ pending' = FALSE
    /\ outgoing' = FALSE
    /\ pc' = "idle"
    /\ lock' = "free"
    /\ incoming' = 0
    /\ lastOp' = Op("poll_return", incoming, "Pending", <<>>)
    /\ UNCHANGED <<conv, constructed, clones, channel, yielded, alive, next_handle,
                   conns, rejecting, muxers, driver, spawned, hist>>

\* poll returning Ready(Ok(())) without looking at the strong count.
TransmitReadyLastUncounted ==
    /\ pc = "transmit"
    /\ incoming # 0
    /\ pending' = FALSE
    /\ outgoing' = FALSE
    /\ pc' = "done"
    /\ lock' = "free"
    /\ incoming' = 0
    /\ lastOp' = Op("poll_return", incoming, "Ok", <<>>)
    /\ UNCHANGED <<conv, constructed, clones, channel, yielded, alive, next_handle,
                   conns, rejecting, muxers, driver, spawned, hist>>

\* poll, lines 299-301: a new connection was accepted, every packet is sent
\* and the driver holds the only reference.  poll returns Ready(Ok(())).
TransmitReadyLast ==
    /\ pc = "transmit"
    /\ incoming # 0
    /\ StrongCount = 1
    /\ pending' = FALSE
    /\ outgoing' = FALSE
    /\ pc' = "done"
    /\ lock' = "free"
    /\ incoming' = 0
    /\ lastOp' = Op("poll_return", incoming, "Ok", <<>>)
    /\ UNCHANGED <<conv, constructed, clones, channel, yielded, alive, next_handle,
                   conns, rejecting, muxers, driver, spawned, hist>>

poll_transmit_pending ==
    \/ TransmitError
    \/ \E more \in BOOLEAN : TransmitBlocked(more)
    \/ TransmitReady
    \/ TransmitReadyLast

\* ------------------------------------------------------------ specification
Next ==
    \/ NewSendAddress
    \/ CloneEndpoint
    \/ DropEndpoint
    \/ \E h \in Handles : DropMuxer(h)
    \/ \E addr \in Addrs : dial(addr)
    \/ \E addr \in Addrs : listen_on(addr)
    \/ ListenFinish
    \/ ListenerPollNext
    \/ DropListener
    \/ DriverPoll
    \/ drive_events
    \/ drive_receive
    \/ accept_muxer
    \/ poll_transmit_pending

Spec == Init /\ [][Next]_vars

\* ------------------------------------------------------------ conversion
\* multiaddr_to_socketaddr on its own, over every Multiaddr of up to MaxSegs
\* segments.
MaxSegs == 4

IPs == {0, 1}
Ports == {0, 1234}

\* The segments a Multiaddr is made of here: Protocol::Ip4, Ip6, Udp, Tcp, Quic.
Segments ==
    { Seg(p, ip) : p \in {"ip4", "ip6"}, ip \in IPs }
        \cup { Seg(p, port) : p \in {"udp", "tcp"}, port \in Ports }
        \cup { Quic }

Multiaddrs == UNION { [1..n -> Segments] : n \in 0..MaxSegs }

\* No conversion has been made.
Unconverted == [ok |-> FALSE, ip |-> <<"unset", 0>>, port |-> 0]

\* The endpoint is constructed, a caller holds a Multiaddr and is about to
\* hand it to multiaddr_to_socketaddr (dial, line 351).
ConvInit ==
    /\ constructed = TRUE
    /\ clones = 1
    /\ receiver = "endpoint"
    /\ new_connections = <<NewAddress>>
    /\ yielded = 0
    /\ muxers = {}
    /\ alive = {}
    /\ next_handle = 1
    /\ conns = {}
    /\ rejecting = FALSE
    /\ outgoing = FALSE
    /\ pending = FALSE
    /\ driver = "Some"
    /\ spawned = 1
    /\ quiet = FALSE
    /\ lock = "free"
    /\ pc = "idle"
    /\ incoming = 0
    /\ synth = [h \in Handles |-> 0]
    /\ lastOp = Op("new", 0, "Ok", <<>>)
    /\ addr_in \in Multiaddrs
    /\ sock_out = Unconverted

\* The call: the result is what the function computes for the argument.
Convert ==
    /\ sock_out = Unconverted
    /\ sock_out' = multiaddr_to_socketaddr(addr_in)
    /\ lastOp' = Op("multiaddr_to_socketaddr", 0,
                    IF multiaddr_to_socketaddr(addr_in).ok THEN "Ok" ELSE "Err",
                    <<>>)
    /\ UNCHANGED <<addr_in, constructed, clones, channel, yielded, alive, inner,
                   lock, pc, incoming, hist>>

ConvNext == Convert

ConvSpec == ConvInit /\ [][ConvNext]_vars

\* ------------------------------------------------------------ handle_event
\* EndpointInner::handle_event on its own, over every Registry and every set
\* of engine connections on MaxRegistry handles.
MaxRegistry == 3

RegistryHandles == 1..MaxRegistry

\* What the engine's handle_event returns: Option<ConnectionEvent>.
EngineResults == {"None", "Some"}

\* The driver is inside its poll, holding the lock; the engine has handed out
\* every handle, and the Registry and the engine hold any of them.
HandleEventInit ==
    /\ constructed = TRUE
    /\ clones = 1
    /\ receiver = "endpoint"
    /\ new_connections = <<NewAddress>>
    /\ yielded = 0
    /\ muxers \in SUBSET RegistryHandles
    /\ alive = {}
    /\ next_handle = MaxRegistry + 1
    /\ conns \in SUBSET RegistryHandles
    /\ rejecting = FALSE
    /\ outgoing = FALSE
    /\ pending = FALSE
    /\ driver = "Some"
    /\ spawned = 1
    /\ quiet = FALSE
    /\ lock = "driver"
    /\ pc = "receive"
    /\ incoming = 0
    /\ synth = [h \in Handles |-> 0]
    /\ lastOp = Op("drive_events", 0, "Pending", <<>>)
    /\ addr_in = Address
    /\ sock_out = multiaddr_to_socketaddr(Address)

\* EndpointInner::handle_event(handle, event): the event goes to the engine,
\* whose answer r is returned; a drained event also removes the entry.
handle_event(h, d, r) ==
    /\ lock = "driver"
    /\ conns' = EngineHandleEvent(conns, h, d)
    /\ muxers' = handle_event_muxers(muxers, h, d)
    /\ lastOp' = Op("handle_event", h, r, <<Call("handle_event", h, d)>>)
    /\ UNCHANGED <<conv, constructed, clones, channel, yielded, alive,
                   next_handle, rejecting, outgoing, pending, driver, spawned,
                   lock, pc, incoming, hist>>

HandleEventNext ==
    \E h \in RegistryHandles, d \in BOOLEAN, r \in EngineResults :
        handle_event(h, d, r)

HandleEventSpec == HandleEventInit /\ [][HandleEventNext]_vars

\* ------------------------------------------------------------ claims
\* Everything but lastOp: the state a refused call must leave alone.
endpoint_state == <<conv, constructed, clones, channel, yielded, alive, inner, lock,
                    pc, incoming, hist>>

AcceptThenReject ==
    <<Call("accept", 0, FALSE), Call("reject_new_connections", 0, FALSE)>>

C2_TerminatesWhenUnreferenced ==
    (lastOp.op = "poll_return" /\ quiet /\ lastOp.result # "Err")
        => lastOp.result = "Ok"

\* C3, as the spec states it: when the receiver of the new-connection channel
\* is gone and the engine reports a new connection, accept_muxer tells the
\* engine accept and then reject_new_connections, and the Registry holds no
\* entry for the connection's handle afterwards.
C3_RefusedAcceptLeavesNoEntry ==
    [][(pc = "accept" /\ receiver = "dropped" /\ accept_muxer)
          => /\ lastOp'.calls = AcceptThenReject
             /\ incoming \notin muxers']_vars

\* C3, amended: when the receiver of the new-connection channel is gone and the
\* engine reports a new connection, accept_muxer tells the engine accept and
\* then reject_new_connections and nothing else, and the Registry entry that
\* create_muxer made for the connection's handle is still there afterwards.
C3_RefusedAcceptKeepsEntry ==
    [][(pc = "accept" /\ receiver = "dropped" /\ accept_muxer)
          => /\ lastOp'.calls = AcceptThenReject
             /\ rejecting'
             /\ incoming \in muxers']_vars

\* A new connection has been refused for want of a receiver.
C3_Witness ==
    /\ receiver = "dropped"
    /\ lastOp.op = "accept_muxer"
    /\ lastOp.result = "SendFailed"
    /\ lastOp.h \in muxers
    /\ rejecting

\* C4: whenever the lock is free and no listen_on is under way, every handle
\* with a Registry entry is a connection the engine has not been told is
\* drained.
C4_RegistryInvariant ==
    (lock = "free" /\ receiver # "taken") => muxers \subseteq conns

\* C5: the first item a Listener yields is NewAddress.
C5_NewAddressFirst ==
    (lastOp.op = "poll_next" /\ lastOp.result # "Pending" /\ yielded = 1)
        => lastOp.result = "NewAddress"

\* C6: every datagram that the engine takes for a connection event of a handle
\* with no entry, or with an entry that does not resolve, has drive_receive
\* give the engine a drained event for that handle, the only one it ever makes
\* up for it, remove the entry, and call no Muxer.
C6_OrphanDrainedOnce ==
    [][\A h \in Handles :
          (pc = "receive" /\ h \in conns /\ ~Resolves(h) /\ lastOp'.h = h
              /\ drive_receive)
             => /\ lastOp'.calls
                      = <<Call("handle", h, FALSE), Call("handle_event", h, TRUE)>>
                /\ synth[h] = 0
                /\ synth'[h] = 1
                /\ h \notin conns'
                /\ h \notin muxers']_vars

\* drive_receive has made up a drained event for a connection whose Muxer was
\* dropped while its Registry entry was still there.
C6_Witness ==
    /\ lastOp.op = "drive_receive"
    /\ lastOp.result = "Orphan"
    /\ synth[lastOp.h] = 1
    /\ lastOp.h \notin alive
    /\ lastOp.h \notin conns

\* An address dial must refuse: it is no ip/udp/quic address, or its port is 0,
\* or its host is the unspecified address.
C7_NotDialable(addr) ==
    \/ Len(addr) # 3
    \/ addr[1].p \notin {"ip4", "ip6"}
    \/ addr[2].p # "udp"
    \/ addr[3].p # "quic"
    \/ addr[2].v = 0
    \/ addr[1].v = 0

\* C7: dial with such an address returns MultiaddrNotSupported, calls nothing
\* on the engine, and leaves the Endpoint Shared State, the Registry, the
\* socket's pending packet and the driver as they are.
C7_BadDialRefused ==
    [][\A addr \in Addrs :
          (lastOp'.op = "dial" /\ C7_NotDialable(addr) /\ dial(addr))
             => /\ lastOp'.op = "dial"
                /\ lastOp'.result = "MultiaddrNotSupported"
                /\ lastOp'.calls = <<>>
                /\ UNCHANGED endpoint_state]_vars

\* dial has refused an address while the Registry held an entry.
C7_Witness ==
    /\ lastOp.op = "dial"
    /\ lastOp.result = "MultiaddrNotSupported"
    /\ muxers # {}

\* C8: listen_on with an address other than the construction address returns
\* MultiaddrNotSupported and leaves everything as it is: the receiver stays
\* where it was, no driver is spawned, the engine and the Registry are
\* untouched.
C8_WrongListenRefused ==
    [][\A addr \in Addrs :
          (lastOp'.op \in {"listen_on", "listen_on_take"} /\ addr # Address
              /\ listen_on(addr))
             => /\ lastOp'.op = "listen_on"
                /\ lastOp'.result = "MultiaddrNotSupported"
                /\ UNCHANGED endpoint_state]_vars

\* listen_on has refused an address and the receiver is still to be taken.
C8_Witness ==
    /\ lastOp.op = "listen_on"
    /\ lastOp.result = "MultiaddrNotSupported"
    /\ receiver = "endpoint"

\* connect succeeded in the dial just made.
ConnectSucceeded(op) == op.calls # <<>> /\ op.calls[1].f = "connect" /\ op.calls[1].h # 0

\* C9: dial makes a Registry entry exactly when the engine's connect succeeds:
\* then the entry of the handle connect returned is in the Registry when dial
\* returns Ok; when connect fails dial returns CannotConnect and the Registry
\* is as it was; a refused address leaves it alone too.
C9_DialRegistersIffConnected ==
    [][\A addr \in Addrs :
          (lastOp'.op = "dial" /\ dial(addr))
             => IF ConnectSucceeded(lastOp')
                THEN /\ lastOp'.result = "Ok"
                     /\ lastOp'.h = lastOp'.calls[1].h
                     /\ lastOp'.h \notin muxers
                     /\ muxers' = muxers \cup {lastOp'.h}
                     /\ lock' = "free"
                ELSE /\ lastOp'.result \in {"CannotConnect", "MultiaddrNotSupported"}
                     /\ muxers' = muxers]_vars

\* dial has connected and its handle is registered.
C9_Witness ==
    /\ lastOp.op = "dial"
    /\ lastOp.result = "Ok"
    /\ lastOp.h \in muxers
    /\ lastOp.h \in conns

\* C10: once the driver has ended with an I/O error, a Listener that has no
\* item left to yield reports the end of its stream.  (Stated for the case
\* most favourable to it: every Endpoint clone has been dropped as well.)
C10_ListenerEndsAfterFailure ==
    (pc = "failed" /\ clones = 0 /\ lastOp.op = "poll_next"
        /\ lastOp.result \notin {"NewAddress", "Upgrade"})
        => lastOp.result = "None"

\* A Multiaddr of the accepted shape: three segments, an IPv4 or IPv6 literal,
\* a UDP port, the QUIC marker.
C11_ThreeSegmentQuic(addr) ==
    /\ Len(addr) = 3
    /\ addr[1].p \in {"ip4", "ip6"}
    /\ addr[2].p = "udp"
    /\ addr[3].p = "quic"

\* C11: the conversion accepts exactly the three-segment addresses (IPv4 or
\* IPv6 literal, UDP port, QUIC marker) and gives the socket address of the
\* same family, IP and port; every other address (marker missing, another
\* protocol for UDP, another order, fewer than three segments, trailing
\* segments) is rejected.
C11_ConversionExact ==
    sock_out # Unconverted
        => IF C11_ThreeSegmentQuic(addr_in)
           THEN /\ sock_out.ok
                /\ sock_out.ip = <<IF addr_in[1].p = "ip4" THEN "v4" ELSE "v6",
                                   addr_in[1].v>>
                /\ sock_out.port = addr_in[2].v
           ELSE ~sock_out.ok

\* An IPv6 address with its port has been converted.
C11_Witness ==
    /\ sock_out.ok
    /\ sock_out.ip = <<"v6", 1>>
    /\ sock_out.port = 1234
    /\ addr_in = <<Seg("ip6", 1), Seg("udp", 1234), Quic>>

\* An address with a segment after the marker has been rejected.
C11_WitnessTrailing ==
    /\ sock_out = ErrAddr
    /\ Len(addr_in) = 4
    /\ C11_ThreeSegmentQuic(SubSeq(addr_in, 1, 3))

\* The call c is among the calls an operation made.
Made(op, c) == \E i \in 1..Len(op.calls) : op.calls[i] = c

\* C12: when drive_events takes from the event channel an endpoint event for a
\* handle whose Muxer has been dropped (its Registry entry no longer resolves),
\* it gives the engine a drained event for that handle, so that the engine
\* forgets the connection, and the Registry entry is removed.
C12_LostEventDrained ==
    [][\A h \in Handles :
          (pc = "events" /\ h \in muxers /\ h \notin alive /\ h \in conns
              /\ lastOp'.op = "drive_events" /\ lastOp'.h = h /\ drive_events)
             => /\ Made(lastOp', Call("handle_event", h, TRUE))
                /\ h \notin conns'
                /\ h \notin muxers']_vars

\* C13: after the driver has accepted a new inbound connection, when
\* poll_transmit_pending has sent everything and someone besides the driver
\* still holds the endpoint, the poll does not return: it goes back to
\* drive_events, still under the lock, for another iteration.
C13_LoopsBackAfterAccept ==
    [][(pc = "transmit" /\ incoming # 0 /\ StrongCount > 1
          /\ poll_transmit_pending /\ ~pending' /\ ~outgoing')
          => /\ pc' = "events"
             /\ lock' = "driver"]_vars

\* C14: EndpointInner::handle_event(handle, event) gives the event to the
\* engine exactly once and returns the engine's answer; it removes the entry
\* of handle exactly when the event is a drained event, and leaves the entry
\* of every other handle as it is.
C14_HandleEventWrapper ==
    [][\A h \in RegistryHandles, d \in BOOLEAN, r \in EngineResults :
          handle_event(h, d, r)
             => /\ lastOp'.calls = <<Call("handle_event", h, d)>>
                /\ lastOp'.result = r
                /\ conns' = EngineHandleEvent(conns, h, d)
                /\ d => h \notin muxers'
                /\ ~d => (h \in muxers' <=> h \in muxers)
                /\ \A g \in RegistryHandles \ {h} :
                      g \in muxers' <=> g \in muxers]_vars

\* A drained event has removed its handle's entry and left another's.
C14_Witness ==
    /\ lastOp.op = "handle_event"
    /\ lastOp.calls = <<Call("handle_event", lastOp.h, TRUE)>>
    /\ lastOp.h \notin muxers
    /\ muxers # {}

\* What a poll returns, by where it leaves the driver.
PollResult(p) ==
    CASE p = "idle" -> "Pending"
      [] p = "done" -> "Ok"
      [] p = "failed" -> "Err"

\* C15: a poll of the driver returns Pending, an I/O error, or success, and it
\* returns success only when poll_transmit_pending has just sent everything
\* and the driver holds the only strong reference: no Endpoint clone, no
\* Listener and no Muxer holds the endpoint when the driver shuts down.
C15_SuccessOnlyWhenLastHolder ==
    [][(pc # pc' /\ pc' \in {"idle", "done", "failed"})
          => /\ lastOp'.op = "poll_return"
             /\ lastOp'.result = PollResult(pc')
             /\ pc' = "done"
                   => /\ pc = "transmit"
                      /\ ~pending' /\ ~outgoing'
                      /\ StrongCount = 1
                      /\ clones' = 0
                      /\ receiver' # "listener"
                      /\ alive' = {}]_vars

\* The driver has shut down after the last Endpoint was dropped.
C15_Witness ==
    /\ pc = "done"
    /\ lastOp.op = "poll_return"
    /\ lastOp.result = "Ok"
    /\ lastOp.h # 0
    /\ clones = 0

\* C16: within one poll of the driver, the event channel is polled until it
\* reports no ready message before the socket is read: the first recv_from of
\* the poll follows the Pending of the event channel, every message the
\* channel handed over before that has been processed, and none is taken once
\* the socket is being read.
C16_EventsBeforeDatagrams ==
    [][/\ drive_receive => pc = "receive"
       /\ (pc' = "receive" /\ pc # "receive")
             => /\ pc = "events"
                /\ lastOp'.op = "drive_events"
                /\ lastOp'.result = "Pending"
       /\ pc = "receive" => ~drive_events]_vars

\* The event channel has reported no ready message after drive_events gave a
\* live Muxer's drained event to the engine, and the socket is about to be
\* read.
C16_Witness ==
    /\ pc = "receive"
    /\ lastOp.op = "drive_events"
    /\ lastOp.result = "Pending"
    /\ \E h \in muxers : h \in alive /\ h \notin conns

\* The driver is not inside a poll: it has not been polled yet, its last poll
\* returned Pending, or it has completed.
Suspended == pc \in {"idle", "done", "failed"}

\* C17: the driver holds the lock exactly while it is inside a poll: it takes
\* it at the start of the iteration and has released it whenever poll has
\* returned, so the lock is free for dial and listen_on while the driver is
\* suspended; and a step that changes the engine or the Registry is either a
\* step of the driver holding the lock, or a dial that finds the lock free
\* while the driver is outside its poll.
C17_LockDiscipline ==
    /\ [](Suspended <=> lock = "free")
    /\ [][<<engine, muxers>>' # <<engine, muxers>>
             => \/ /\ lock = "driver"
                   /\ ~Suspended
                   /\ lastOp'.op \in {"drive_events", "drive_receive",
                                      "accept_muxer", "poll_return"}
                \/ /\ lock = "free"
                   /\ lock' = "free"
                   /\ Suspended
                   /\ lastOp'.op = "dial"]_vars

\* dial has taken the lock and called connect while the driver, with a packet
\* the socket did not take, was suspended.
C17_Witness ==
    /\ lastOp.op = "dial"
    /\ Made(lastOp, Call("connect", 0, FALSE))
    /\ pc = "idle"
    /\ lock = "free"
    /\ pending

\* C18: a socket read error in drive_receive or a socket write error in
\* poll_transmit_pending ends the driver: the poll in which it happens returns
\* the error, nothing else of that iteration runs (the engine, the Registry,
\* the pending packet and the channel are as the failing operation found
\* them), and the driver takes no step afterwards.
C18_IoErrorFatal ==
    [][/\ (pc \in {"receive", "transmit"} /\ (ReceiveError \/ TransmitError))
             => /\ pc' = "failed"
                /\ lock' = "free"
                /\ lastOp'.op = "poll_return"
                /\ lastOp'.result = "Err"
                /\ UNCHANGED <<inner, channel, alive>>
       /\ pc = "failed"
             => /\ pc' = "failed"
                /\ ~(DriverPoll \/ drive_events \/ drive_receive \/ accept_muxer
                        \/ poll_transmit_pending)]_vars

\* The driver has ended on a write error, the packet still unsent.
C18_Witness ==
    /\ pc = "failed"
    /\ lastOp.op = "poll_return"
    /\ lastOp.result = "Err"
    /\ ToSend
    /\ lock = "free"

\* C19: whenever a poll of the driver returns Pending, drive_receive was the
\* operation that found nothing ready, so the waker is registered with the
\* socket's receive readiness.  (lastOp.h of a poll_return is the handle of the
\* new connection drive_receive returned Ready with in that poll, and 0 when
\* recv_from returned Pending and registered the waker.  Stated for the polls
\* that leave nothing to transmit, where the socket's send readiness holds no
\* waker either.)
C19_SuspendsOnReceive ==
    (lastOp.op = "poll_return" /\ lastOp.result = "Pending" /\ ~pending)
        => lastOp.h = 0

\* C20: one driver task is spawned for the endpoint, by Endpoint::new; the
\* JoinHandle stays in EndpointInner.driver, so no dial and no listen_on, on
\* any clone, spawns another, also not once the first driver has ended.
C20_OneDriver ==
    /\ spawned = 1
    /\ driver = "Some"

\* dial has connected after the driver ended on an I/O error, and no second
\* driver has been spawned.
C20_Witness ==
    /\ pc = "failed"
    /\ lastOp.op = "dial"
    /\ lastOp.result = "Ok"
    /\ spawned = 1

====
